---- MODULE Spec2Model ----
(***************************************************************************)
(* ai-token-chunker: chunkPrompt (src/index.cjs, and the ESM entry point)  *)
(* and the partitioner chunkInput (src/chunker.cjs, src/chunker.js).       *)
(*                                                                         *)
(* A text is a sequence of UTF-16 code units, as a JavaScript string is.   *)
(* Code units are drawn from five classes:                                 *)
(*   "a"  an ASCII letter            (1 byte in UTF-8)                     *)
(*   " "  ASCII whitespace           (1 byte, matches \s)                  *)
(*   "."  a sentence terminator      (1 byte, matches [.!?])               *)
(*   "H"  a high surrogate (U+D83D)  (4 bytes together with a following L, *)
(*   "L"  a low surrogate  (U+DE80)   3 bytes each when unpaired: U+FFFD)  *)
(* An image is modelled by its normalized size in bytes.                   *)
(***************************************************************************)
EXTENDS Integers, Sequences, FiniteSets, TLC

\* ------------------------------------------------------------------ bounds
\* Inputs are drawn from two families.
\*   short: texts of any code units (multi-byte ones included), small limits
\*          from 0 up, so that the byte budget binds and guards fire;
\*   long:  ASCII texts long enough for a chunk of more than four characters
\*          (more than one estimated token), a byte limit that never binds.
\* Both give every limit through customLimits.  A third family covers the
\* entry of chunkPrompt:
\*   call:  any provider and model, texts of up to MaxCallLen characters,
\*          images one more and one byte larger than the short family's,
\*          customLimits with any subset of the fields.
MaxLen == 3
MaxBytesLimit == 6
MaxCharsLimit == 2
MaxTokensLimit == 1
LongLen == 5
LongTokens == 1
MaxOverlap == 2
MaxImages == 2
MaxImageSize == 1
MaxCallLen == 2

\* the calls with a larger overlap: texts of up to WideLen characters,
\* maxChars WideChars - 1 or WideChars, maxBytes 2 * WideChars or 2 * WideLen,
\* chunkOverlap up to WideOverlap
WideLen == 6
WideChars == 4
WideTokens == 2
WideOverlap == 3

\* a run that pushed more chunks than the text has cursor positions (plus the
\* first-chunk iteration) has repeated a loop state and never ends
MaxChunks == LongLen + 2

ShortAlphabet == {"a", " ", "H", "L"}
LongAlphabet == {"a", " ", "."}

\* ---------------------------------------------------------------- helpers
Min(a, b) == IF a <= b THEN a ELSE b
Max(a, b) == IF a >= b THEN a ELSE b

\* Math.ceil(n / 4) for n >= 0
CeilDiv4(n) == (n + 3) \div 4

\* String.prototype.slice(start, end) on a sequence of code units
Slice(s, start, end) ==
  LET n  == Len(s)
      st == IF start < 0 THEN Max(n + start, 0) ELSE Min(start, n)
      en == IF end < 0 THEN Max(n + end, 0) ELSE Min(end, n)
  IN IF st >= en THEN << >> ELSE SubSeq(s, st + 1, en)

\* s[i] (0-based); "undefined" outside the string
CharAt(s, i) == IF i >= 0 /\ i < Len(s) THEN s[i + 1] ELSE "undefined"

IsSpace(c) == c = " "
IsTerminator(c) == c = "."

\* UTF-8 bytes contributed by the code unit at 1-based position p of s
UnitBytes(s, p) ==
  CASE s[p] = "H" -> IF p < Len(s) /\ s[p + 1] = "L" THEN 4 ELSE 3
    [] s[p] = "L" -> IF p > 1 /\ s[p - 1] = "H" THEN 0 ELSE 3
    [] OTHER -> 1

RECURSIVE SumBytes(_, _)
SumBytes(s, p) == IF p > Len(s) THEN 0 ELSE UnitBytes(s, p) + SumBytes(s, p + 1)

\* limits.cjs getTextByteSize: Buffer.byteLength(text, 'utf8'), 0 for ''
getTextByteSize(s) == IF Len(s) = 0 THEN 0 ELSE SumBytes(s, 1)

\* limits.cjs estimateTokens
estimateTokens(s) == IF Len(s) = 0 THEN 0 ELSE CeilDiv4(Len(s))

RECURSIVE SumSeq(_, _)
SumSeq(q, p) == IF p > Len(q) THEN 0 ELSE q[p] + SumSeq(q, p + 1)

\* image.cjs getImagesByteSize
getImagesByteSize(imgs) == IF Len(imgs) = 0 THEN 0 ELSE SumSeq(imgs, 1)

\* ------------------------------------------------------- findSplitPoint
SentenceWindow == 200
WordWindow == 100

\* /[.!?]\s/.test(w): some terminator immediately followed by whitespace
HasSentenceBreak(w) ==
  \E j \in 1..(Len(w) - 1) : IsTerminator(w[j]) /\ IsSpace(w[j + 1])

\* for (i = sentenceEnd; i > lo; i--) if (/[.!?]\s/.test(text.slice(i-2, i+1))) return i
\* -1 when the loop ends without returning
RECURSIVE SentenceScan(_, _, _)
SentenceScan(t, i, lo) ==
  IF i > lo
    THEN IF HasSentenceBreak(Slice(t, i - 2, i + 1))
           THEN i
           ELSE SentenceScan(t, i - 1, lo)
    ELSE -1

\* for (i = sentenceEnd; i > lo; i--) if (/\s/.test(text[i])) return i + 1
RECURSIVE WordScan(_, _, _)
WordScan(t, i, lo) ==
  IF i > lo
    THEN IF IsSpace(CharAt(t, i)) THEN i + 1 ELSE WordScan(t, i - 1, lo)
    ELSE -1

findSplitPoint(t, maxLength) ==
  IF maxLength >= Len(t)
    THEN Len(t)
    ELSE LET sentenceEnd == Min(maxLength, Len(t))
             bySentence  == SentenceScan(t, sentenceEnd, Max(0, sentenceEnd - SentenceWindow))
             byWord      == WordScan(t, sentenceEnd, Max(0, sentenceEnd - WordWindow))
         IN IF bySentence # -1 THEN bySentence
            ELSE IF byWord # -1 THEN byWord
            ELSE maxLength

\* ------------------------------------------------------ chunkInput pieces
\* the binary search of the byte verification; the value of low when it ends
RECURSIVE binarySearch(_, _, _, _, _)
binarySearch(chunkText, chunkImageBytes, maxChunkBytes, low, high) ==
  IF low < high
    THEN LET mid       == (low + high) \div 2
             testText  == Slice(chunkText, 0, mid)
             testBytes == getTextByteSize(testText) + chunkImageBytes
         IN IF testBytes <= maxChunkBytes
              THEN binarySearch(chunkText, chunkImageBytes, maxChunkBytes, mid + 1, high)
              ELSE binarySearch(chunkText, chunkImageBytes, maxChunkBytes, low, mid)
    ELSE low

\* boundary selection: the split point before byte verification
selectSplit(remainingText, targetChars, rwb) ==
  IF Len(remainingText) <= targetChars
    THEN Len(remainingText)
    ELSE IF rwb THEN findSplitPoint(remainingText, targetChars) ELSE targetChars

\* exact byte verification: the split point after it
verifyBytes(remainingText, splitPoint, chunkImageBytes, maxChunkBytes) ==
  LET chunkText       == Slice(remainingText, 0, splitPoint)
      totalChunkBytes == getTextByteSize(chunkText) + chunkImageBytes
  IN IF totalChunkBytes > maxChunkBytes
       THEN Max(0, binarySearch(chunkText, chunkImageBytes, maxChunkBytes, 0, Len(chunkText)) - 1)
       ELSE splitPoint

\* token correction that compares but never cuts
correctTokens_NoCut(remainingText, splitPoint, maxTokens) == splitPoint

\* token correction that allows one token too many
correctTokens_OneTokenMore(remainingText, splitPoint, maxTokens) ==
  LET chunkText        == Slice(remainingText, 0, splitPoint)
      maxCharsByTokens == (maxTokens + 1) * 4
  IN IF estimateTokens(chunkText) > maxTokens /\ Len(chunkText) > maxCharsByTokens
       THEN Min(splitPoint, maxCharsByTokens)
       ELSE splitPoint

\* token correction: the split point after it
correctTokens(remainingText, splitPoint, maxTokens) ==
  LET chunkText        == Slice(remainingText, 0, splitPoint)
      maxCharsByTokens == maxTokens * 4
  IN IF estimateTokens(chunkText) > maxTokens /\ Len(chunkText) > maxCharsByTokens
       THEN Min(splitPoint, maxCharsByTokens)
       ELSE splitPoint

\* every chunk carries the images
chunkImages_Every(isFirstChunk, imgs) == imgs

\* images attached to the chunk being emitted
chunkImages(isFirstChunk, imgs) == IF isFirstChunk THEN imgs ELSE << >>

\* the chunk index never moves
nextChunkIndex_Stuck(ci) == ci

\* chunkIndex++
nextChunkIndex(ci) == ci + 1

\* a loop without the zero-progress test
zeroProgress_Never(splitPoint) == FALSE

\* the test of the fallback that ends the call when a pass consumed nothing
zeroProgress(splitPoint) == splitPoint = 0

\* the cursor moves one character too far
advance_SkipsOne(cur, splitPoint, overlap, textLength) ==
  LET moved == cur + splitPoint
  IN IF moved < textLength THEN Max(0, moved + 1 - overlap) ELSE moved

\* the cursor steps back one character less than the overlap
advance_BackOneLess(cur, splitPoint, overlap, textLength) ==
  LET moved == cur + splitPoint
  IN IF overlap > 0 /\ moved < textLength THEN Max(0, moved - (overlap - 1)) ELSE moved

\* the cursor steps back one character more than the overlap
advance_BackOneMore(cur, splitPoint, overlap, textLength) ==
  LET moved == cur + splitPoint
  IN IF overlap > 0 /\ moved < textLength THEN Max(0, moved - overlap - 1) ELSE moved

\* the cursor steps back by the overlap even past the start of the text
advance_Unclamped(cur, splitPoint, overlap, textLength) ==
  LET moved == cur + splitPoint
  IN IF overlap > 0 /\ moved < textLength THEN moved - overlap ELSE moved

\* the cursor after a chunk that consumed splitPoint characters
advance(cur, splitPoint, overlap, textLength) ==
  LET moved == cur + splitPoint
  IN IF overlap > 0 /\ moved < textLength THEN Max(0, moved - overlap) ELSE moved

\* ------------------------------------------------------------- errors
NoError == [kind |-> "none", limit |-> "", actual |-> 0, allowed |-> 0, imageIndex |-> -1]

LimitExceededError(limit, actual, allowed) ==
  [kind |-> "LimitExceededError", limit |-> limit, actual |-> actual,
   allowed |-> allowed, imageIndex |-> -1]

ImageLimitError(reason, actual, allowed, imageIndex) ==
  [kind |-> "ImageLimitError", limit |-> reason, actual |-> actual,
   allowed |-> allowed, imageIndex |-> imageIndex]

InvalidInputError ==
  [kind |-> "InvalidInputError", limit |-> "", actual |-> 0, allowed |-> 0, imageIndex |-> -1]

ProviderNotSupportedError ==
  [kind |-> "ProviderNotSupportedError", limit |-> "", actual |-> 0, allowed |-> 0,
   imageIndex |-> -1]

\* the TypeError of the JavaScript engine, thrown by no code of the package
TypeError ==
  [kind |-> "TypeError", limit |-> "", actual |-> 0, allowed |-> 0, imageIndex |-> -1]

\* ------------------------------------------------------ limits resolution
Fields == {"maxTokens", "maxChars", "maxBytes", "maxImages", "imageByteLimit"}

Limits(maxTokens, maxChars, maxBytes, maxImages, imageByteLimit) ==
  [maxTokens |-> maxTokens, maxChars |-> maxChars, maxBytes |-> maxBytes,
   maxImages |-> maxImages, imageByteLimit |-> imageByteLimit]

\* no limits object yet
NoLimits == Limits(0, 0, 0, 0, 0)

\* providers.js PROVIDER_LIMITS: the entries of the providers the calls name
PROVIDER_LIMITS ==
  "openai" :>
    ( "gpt-4o"        :> Limits(128000, 512000, 512000, 10, 20000000) @@
      "gpt-4-turbo"   :> Limits(128000, 512000, 512000, 10, 20000000) @@
      "gpt-4"         :> Limits(8192, 32768, 32768, 0, 0) @@
      "gpt-3.5-turbo" :> Limits(16385, 65540, 65540, 0, 0) @@
      "default"       :> Limits(128000, 512000, 512000, 10, 20000000) ) @@
  "azure-openai" :>
    ( "default"       :> Limits(128000, 512000, 512000, 10, 20000000) )

\* property names every object literal inherits from Object.prototype; their
\* values are functions (or, for __proto__, Object.prototype itself): truthy,
\* with no own enumerable property
ObjectPrototypeKeys ==
  {"constructor", "hasOwnProperty", "isPrototypeOf", "propertyIsEnumerable",
   "toLocaleString", "toString", "valueOf", "__proto__",
   "__defineGetter__", "__defineSetter__", "__lookupGetter__", "__lookupSetter__"}

\* the own properties of the function Object, all truthy: its name, its
\* length (1), its prototype and its static methods, as on Node 18 and 20
\* (Node 21 and later add groupBy, which is left out)
ObjectOwnKeys ==
  {"name", "length", "prototype",
   "assign", "create", "defineProperties", "defineProperty", "entries", "freeze",
   "fromEntries", "getOwnPropertyDescriptor", "getOwnPropertyDescriptors",
   "getOwnPropertyNames", "getOwnPropertySymbols", "getPrototypeOf",
   "hasOwn", "is", "isExtensible", "isFrozen", "isSealed", "keys",
   "preventExtensions", "seal", "setPrototypeOf", "values"}

\* the methods a function inherits from Function.prototype besides the names
\* of ObjectPrototypeKeys
FunctionPrototypeKeys == {"apply", "bind", "call"}

\* the accessors of Function.prototype that throw a TypeError when read on a
\* built-in function
RestrictedFunctionKeys == {"arguments", "caller"}

\* the methods of Object.prototype declared without a parameter: their length
\* is 0, the others' is 1 or 2
ZeroLengthMethods == {"toString", "toLocaleString", "valueOf"}

\* value[m] for the value PROVIDER_LIMITS[p] finds on Object.prototype, p in
\* ObjectPrototypeKeys: Object.prototype itself for __proto__ (its __proto__
\* is null), the function Object for constructor, a method otherwise
InheritedProperty(p, m) ==
  IF p = "__proto__"
    THEN IF m \in ObjectPrototypeKeys \ {"__proto__"} THEN "truthy" ELSE "falsy"
  ELSE IF m \in RestrictedFunctionKeys THEN "throws"
  ELSE IF m \in ObjectPrototypeKeys \cup FunctionPrototypeKeys \cup {"name"} THEN "truthy"
  ELSE IF m = "length" THEN IF p \in ZeroLengthMethods THEN "falsy" ELSE "truthy"
  ELSE IF p = "constructor" /\ m \in ObjectOwnKeys THEN "truthy"
  ELSE "falsy"

\* the value of a field a limits object does not have
Undefined == "undefined"

\* the values getProviderLimits returns (and NotResolved before it is called);
\* Inherited is a truthy value that is no entry of the table and has none of
\* the fields; Thrown is the TypeError of a restricted accessor
NotResolved == [tag |-> "none", limits |-> NoLimits]
Null == [tag |-> "null", limits |-> NoLimits]
Inherited == [tag |-> "inherited", limits |-> NoLimits]
Thrown == [tag |-> "TypeError", limits |-> NoLimits]
Entry(l) == [tag |-> "limits", limits |-> l]

\* the lookup that ignores the default entry
getProviderLimits_NoDefault(table, p, m) ==
  IF p \in DOMAIN table /\ m \in DOMAIN table[p] THEN Entry(table[p][m]) ELSE Null

\* providers.js getProviderLimits; obj[key] finds own and inherited properties
getProviderLimits(table, p, m) ==
  IF p \in DOMAIN table
    THEN LET providerConfig == table[p]
         IN IF m \in DOMAIN providerConfig THEN Entry(providerConfig[m])
            ELSE IF m \in ObjectPrototypeKeys THEN Inherited
            ELSE IF "default" \in DOMAIN providerConfig THEN Entry(providerConfig["default"])
            ELSE Null
  ELSE IF p \in ObjectPrototypeKeys
    THEN CASE InheritedProperty(p, m) = "truthy" -> Inherited
           [] InheritedProperty(p, m) = "throws" -> Thrown
           [] OTHER                              -> Null
  ELSE Null

\* the override done in place: Object.assign(limits, options.customLimits)
applyCustomLimits_InPlace(table, p, m, r, custom) ==
  LET lim == [f \in Fields |-> IF f \in DOMAIN custom THEN custom[f]
                                ELSE IF r.tag = "limits" THEN r.limits[f]
                                ELSE Undefined]
      key == IF m \in DOMAIN table[p] THEN m ELSE "default"
  IN [limits |-> lim,
      table  |-> IF r.tag = "limits" /\ DOMAIN custom # {}
                   THEN [table EXCEPT ![p] = [@ EXCEPT ![key] = lim]]
                   ELSE table]

\* index.cjs chunkPrompt: limits = { ...limits, ...options.customLimits }, a new
\* object; r is the value the lookup returned, custom maps the fields that
\* options.customLimits has (no field when there is no customLimits).  An
\* inherited value has no field of its own: the fields customLimits does not
\* give are undefined
applyCustomLimits(table, p, m, r, custom) ==
  [limits |-> [f \in Fields |-> IF f \in DOMAIN custom THEN custom[f]
                                 ELSE IF r.tag = "limits" THEN r.limits[f]
                                 ELSE Undefined],
   table  |-> table]

\* the argument checks that let an empty input through
validateCall_InputUnchecked(p, m, t) ==
  IF p = "" \/ m = "" THEN InvalidInputError ELSE NoError

\* index.cjs chunkPrompt: the argument checks; "" stands for a provider, model
\* or input that is missing, empty or not a string
validateCall(p, m, t) ==
  IF p = "" THEN InvalidInputError
  ELSE IF m = "" THEN InvalidInputError
  ELSE IF Len(t) = 0 THEN InvalidInputError
  ELSE NoError

\* image validation that checks the sizes before the count
validateImages_SizesFirst(imgs, lim) ==
  IF Len(imgs) = 0 THEN NoError
  ELSE IF \E i \in 1..Len(imgs) : imgs[i] > lim.imageByteLimit
    THEN LET i == CHOOSE i \in 1..Len(imgs) :
                    /\ imgs[i] > lim.imageByteLimit
                    /\ \A j \in 1..(i - 1) : imgs[j] <= lim.imageByteLimit
         IN ImageLimitError("imageByteLimit exceeded", imgs[i], lim.imageByteLimit, i - 1)
  ELSE IF Len(imgs) > lim.maxImages
    THEN ImageLimitError("maxImages exceeded", Len(imgs), lim.maxImages, -1)
  ELSE NoError

\* image.cjs validateImages: the error it throws, NoError when it returns
validateImages(imgs, lim) ==
  IF Len(imgs) = 0 THEN NoError
  ELSE IF Len(imgs) > lim.maxImages
    THEN ImageLimitError("maxImages exceeded", Len(imgs), lim.maxImages, -1)
  ELSE IF \E i \in 1..Len(imgs) : imgs[i] > lim.imageByteLimit
    THEN LET i == CHOOSE i \in 1..Len(imgs) :
                    /\ imgs[i] > lim.imageByteLimit
                    /\ \A j \in 1..(i - 1) : imgs[j] <= lim.imageByteLimit
         IN ImageLimitError("imageByteLimit exceeded", imgs[i], lim.imageByteLimit, i - 1)
  ELSE NoError

\* limits.cjs validateLimits: the error it throws, NoError when it returns
validateLimits(t, imgs, lim) ==
  LET totalBytes == getTextByteSize(t) + getImagesByteSize(imgs)
  IN IF totalBytes > lim.maxBytes
       THEN LimitExceededError("maxBytes", totalBytes, lim.maxBytes)
     ELSE IF Len(t) > lim.maxChars
       THEN LimitExceededError("maxChars", Len(t), lim.maxChars)
     ELSE IF estimateTokens(t) > lim.maxTokens
       THEN LimitExceededError("maxTokens", estimateTokens(t), lim.maxTokens)
     ELSE NoError

\* the results of checkFits
Fits == [fits |-> TRUE, reason |-> "", actual |-> 0, allowed |-> 0]
NotFits(reason, actual, allowed) ==
  [fits |-> FALSE, reason |-> reason, actual |-> actual, allowed |-> allowed]

\* not called
NoFit == [fits |-> FALSE, reason |-> "not called", actual |-> 0, allowed |-> 0]

\* the fit check that looks at the characters before the bytes
checkFits_CharsFirst(t, imgs, lim) ==
  LET totalBytes == getTextByteSize(t) + getImagesByteSize(imgs)
  IN IF Len(t) > lim.maxChars
       THEN NotFits("maxChars", Len(t), lim.maxChars)
     ELSE IF totalBytes > lim.maxBytes
       THEN NotFits("maxBytes", totalBytes, lim.maxBytes)
     ELSE IF estimateTokens(t) > lim.maxTokens
       THEN NotFits("maxTokens", estimateTokens(t), lim.maxTokens)
     ELSE Fits

\* limits.cjs checkFits
checkFits(t, imgs, lim) ==
  LET textBytes       == getTextByteSize(t)
      imageBytes      == getImagesByteSize(imgs)
      totalBytes      == textBytes + imageBytes
      estimatedTokens == estimateTokens(t)
  IN IF totalBytes > lim.maxBytes
       THEN NotFits("maxBytes", totalBytes, lim.maxBytes)
     ELSE IF Len(t) > lim.maxChars
       THEN NotFits("maxChars", Len(t), lim.maxChars)
     ELSE IF estimatedTokens > lim.maxTokens
       THEN NotFits("maxTokens", estimatedTokens, lim.maxTokens)
     ELSE Fits

\* the single-chunk test with strict comparisons
fitsInOneChunk_Strict(t, normalizedImages, lim) ==
  /\ getTextByteSize(t) + getImagesByteSize(normalizedImages) < lim.maxBytes
  /\ Len(t) < lim.maxChars
  /\ CeilDiv4(Len(t)) <= lim.maxTokens
  /\ Len(normalizedImages) <= lim.maxImages

\* index.cjs chunkPrompt: the single-chunk test
fitsInOneChunk(t, normalizedImages, lim) ==
  LET textBytes       == getTextByteSize(t)
      imageBytes      == getImagesByteSize(normalizedImages)
      totalBytes      == textBytes + imageBytes
      estimatedTokens == CeilDiv4(Len(t))
  IN /\ totalBytes <= lim.maxBytes
     /\ Len(t) <= lim.maxChars
     /\ estimatedTokens <= lim.maxTokens
     /\ Len(normalizedImages) <= lim.maxImages

\* chunker.cjs calculateMetadata
RECURSIVE SumChunkTokens(_, _)
SumChunkTokens(cs, p) ==
  IF p > Len(cs) THEN 0 ELSE estimateTokens(cs[p].text) + SumChunkTokens(cs, p + 1)

RECURSIVE SumChunkBytes(_, _)
SumChunkBytes(cs, p) ==
  IF p > Len(cs) THEN 0
  ELSE getTextByteSize(cs[p].text) + getImagesByteSize(cs[p].images) + SumChunkBytes(cs, p + 1)

\* metadata that leaves the images out of the bytes
calculateMetadata_TextOnly(cs) ==
  [totalChunks     |-> Len(cs),
   estimatedTokens |-> SumChunkTokens(cs, 1),
   estimatedBytes  |-> SumChunkBytes(cs, 1) - getImagesByteSize(cs[1].images)]

calculateMetadata(cs) ==
  [totalChunks     |-> Len(cs),
   estimatedTokens |-> SumChunkTokens(cs, 1),
   estimatedBytes  |-> SumChunkBytes(cs, 1)]

NoMetadata == [totalChunks |-> 0, estimatedTokens |-> 0, estimatedBytes |-> 0]

\* ---------------------------------------------------------------- state
VARIABLES
  variant,                \* "cjs": index.cjs + chunker.cjs; "esm": index.js + chunker.js
  provider,               \* provider; "" when missing, empty or not a string
  model,                  \* model; "" when missing, empty or not a string
  text,                   \* input; << >> when missing, empty or not a string
  images,                 \* images (sizes of the normalized images)
  customLimits,           \* options.customLimits: the fields it has, << >> when absent
  chunkOverlap,           \* options.chunkOverlap
  respectWordBoundaries,  \* options.respectWordBoundaries
  presets,                \* the PROVIDER_LIMITS object
  resolved,               \* chunkPrompt: what getProviderLimits returned
  limits,                 \* chunkPrompt: limits after resolution and customLimits
  pc,                     \* "chunkPrompt", "chunkInput", "loop", "done", "error"
  currentIndex,           \* chunkInput: cursor
  chunkIndex,             \* chunkInput: index of the next chunk
  chunks,                 \* the chunk array being built, returned when pc = "done"
  starts,                 \* the offset in text at which each chunk of chunks starts
  metadata,               \* result.metadata when pc = "done"
  err,                    \* the error thrown when pc = "error"
  partitioned,            \* chunkInput was called
  fit,                    \* what checkFits returned
  caller                  \* the caller: the number of the call it is making, the
                          \* customLimits and the outcome of its first call, the
                          \* outcome of a call it made in between

vars == <<variant, provider, model, text, images, customLimits, chunkOverlap,
          respectWordBoundaries, presets, resolved, limits, pc, currentIndex, chunkIndex,
          chunks, starts, metadata, err, partitioned, fit, caller>>

inputs == <<variant, provider, model, text, images, customLimits, chunkOverlap,
            respectWordBoundaries>>

TextsOver(A, n) == UNION {[1..k -> A] : k \in 0..n}
ImageSeqs == UNION {[1..n -> 1..MaxImageSize] : n \in 0..MaxImages}

ShortLimits ==
  [maxTokens : 0..MaxTokensLimit, maxChars : 0..MaxCharsLimit, maxBytes : 0..MaxBytesLimit,
   maxImages : {MaxImages}, imageByteLimit : {MaxImageSize}]

LongLimits ==
  [maxTokens : 1..LongTokens, maxChars : 1..LongLen, maxBytes : {2 * LongLen},
   maxImages : {MaxImages}, imageByteLimit : {MaxImageSize}]

\* the calls of the third family: any provider and model, known or not, a few
\* images too many or too large, customLimits with any subset of the fields
ProviderNames == {"openai", "azure-openai", "nosuch", "constructor", ""}
ModelNames == {"gpt-4", "nomodel", "constructor", ""}
CallTexts == TextsOver({"a"}, MaxCallLen)
CallImageSeqs == UNION {[1..n -> 1..(MaxImageSize + 1)] : n \in 0..(MaxImages + 1)}

\* the values customLimits gives a field
CustomValues(f) ==
  CASE f = "maxTokens"      -> 0..MaxTokensLimit
    [] f = "maxChars"       -> {MaxCallLen - 1}
    [] f = "maxBytes"       -> {MaxCallLen, 2 * MaxCallLen}
    [] f = "maxImages"      -> {MaxImages - 1, MaxImages}
    [] f = "imageByteLimit" -> {MaxImageSize}

CallCustomLimits ==
  UNION {{c \in [D -> UNION {CustomValues(f) : f \in D}] :
            \A f \in D : c[f] \in CustomValues(f)} : D \in SUBSET Fields}

\* limits with a negative field
NegativeValues(f) ==
  CASE f = "maxTokens"      -> {-1, MaxTokensLimit}
    [] f = "maxChars"       -> {-1, MaxCharsLimit}
    [] f = "maxBytes"       -> {-1, MaxBytesLimit}
    [] f = "maxImages"      -> {-1, MaxImages}
    [] f = "imageByteLimit" -> {-1, MaxImageSize}

NegativeLimits ==
  {c \in [Fields -> {-1, MaxTokensLimit, MaxCharsLimit, MaxBytesLimit, MaxImages, MaxImageSize}] :
     /\ \A f \in Fields : c[f] \in NegativeValues(f)
     /\ \E f \in Fields : c[f] < 0}

\* what a call gave its caller: the result it returned or the error it threw
Outcome(p, cs, md, e) ==
  [kind     |-> p,
   chunks   |-> IF p = "done" THEN cs ELSE << >>,
   metadata |-> IF p = "done" THEN md ELSE NoMetadata,
   err      |-> IF p = "error" THEN e ELSE NoError]

NoOutcome == Outcome("none", << >>, NoMetadata, NoError)

\* the caller at its first call, made with the customLimits custom
FirstCall(custom) ==
  [calls |-> 1, customLimits |-> custom, outcome |-> NoOutcome, between |-> NoOutcome]

InitCall ==
  /\ caller = FirstCall(customLimits)
  /\ pc = "chunkPrompt"
  /\ presets = PROVIDER_LIMITS
  /\ resolved = NotResolved
  /\ limits = NoLimits
  /\ currentIndex = 0
  /\ chunkIndex = 0
  /\ chunks = << >>
  /\ starts = << >>
  /\ metadata = NoMetadata
  /\ err = NoError
  /\ partitioned = FALSE
  /\ fit = NoFit

InitInputs ==
  \/ /\ provider = "openai" /\ model = "gpt-4o"
     /\ images \in ImageSeqs
     /\ chunkOverlap \in 0..MaxOverlap
     /\ respectWordBoundaries \in BOOLEAN
     /\ \/ text \in TextsOver(ShortAlphabet, MaxLen) /\ customLimits \in ShortLimits
        \/ text \in TextsOver(LongAlphabet, LongLen) /\ customLimits \in LongLimits
  \/ /\ provider \in ProviderNames /\ model \in ModelNames
     /\ text \in CallTexts
     /\ images \in CallImageSeqs
     /\ customLimits \in CallCustomLimits
     /\ chunkOverlap = 0
     /\ respectWordBoundaries = TRUE
     \* limits with a field that is not a number are outside the model
     /\ getProviderLimits(PROVIDER_LIMITS, provider, model).tag = "inherited"
          => DOMAIN customLimits = Fields

Init ==
  /\ variant = "cjs"
  /\ InitInputs
  /\ InitCall

\* calls whose customLimits have a negative field
NegInit ==
  /\ variant = "cjs"
  /\ provider = "openai" /\ model = "gpt-4o"
  /\ text \in TextsOver({"a", " "}, MaxLen)
  /\ images \in ImageSeqs
  /\ customLimits \in NegativeLimits
  /\ chunkOverlap \in 0..1
  /\ respectWordBoundaries \in BOOLEAN
  /\ InitCall

Throw(e) ==
  /\ pc' = "error"
  /\ err' = e

\* index.cjs chunkPrompt up to the call of chunkInput (or the single-chunk return)
chunkPrompt ==
  /\ pc = "chunkPrompt"
  /\ UNCHANGED <<inputs, caller, currentIndex, chunkIndex, fit>>
  /\ IF validateCall(provider, model, text) # NoError
       THEN /\ Throw(validateCall(provider, model, text))
            /\ UNCHANGED <<presets, resolved, limits, chunks, starts, metadata, partitioned>>
     ELSE LET r == getProviderLimits(presets, provider, model) IN
       /\ resolved' = IF r.tag = "TypeError" THEN NotResolved ELSE r
       /\ IF r.tag = "TypeError"
            THEN /\ Throw(TypeError)
                 /\ UNCHANGED <<presets, limits, chunks, starts, metadata, partitioned>>
          ELSE IF r.tag = "null"
            THEN /\ Throw(ProviderNotSupportedError)
                 /\ UNCHANGED <<presets, limits, chunks, starts, metadata, partitioned>>
          ELSE LET a   == applyCustomLimits(presets, provider, model, r, customLimits)
                   lim == a.limits
               IN
            /\ limits' = lim
            /\ presets' = a.table
            /\ IF validateImages(images, lim) # NoError
                 THEN /\ Throw(validateImages(images, lim))
                      /\ UNCHANGED <<chunks, starts, metadata, partitioned>>
               ELSE IF fitsInOneChunk(text, images, lim)
                 THEN IF validateLimits(text, images, lim) # NoError
                        THEN /\ Throw(validateLimits(text, images, lim))
                             /\ UNCHANGED <<chunks, starts, metadata, partitioned>>
                        ELSE LET cs == <<[text |-> text, images |-> images, index |-> 0]>>
                             IN /\ chunks' = cs
                                /\ starts' = <<0>>
                                /\ metadata' = calculateMetadata(cs)
                                /\ pc' = "done"
                                /\ UNCHANGED <<err, partitioned>>
               ELSE /\ pc' = "chunkInput"
                    /\ partitioned' = TRUE
                    /\ UNCHANGED <<chunks, starts, metadata, err>>

\* chunker.cjs chunkInput, the unsplittable-input guard: the error it throws,
\* NoError when one single-byte character with all the images can be a chunk
unsplittableGuard_CharsFirst(imgs, lim) ==
  LET singleCharWithImages == getTextByteSize(<<"a">>) + getImagesByteSize(imgs)
  IN IF 1 > lim.maxChars
       THEN LimitExceededError("maxChars", 1, lim.maxChars)
     ELSE IF singleCharWithImages > lim.maxBytes
       THEN LimitExceededError("maxBytes", singleCharWithImages, lim.maxBytes)
     ELSE NoError

unsplittableGuard(imgs, lim) ==
  LET imageBytes           == getImagesByteSize(imgs)
      singleCharBytes      == getTextByteSize(<<"a">>)
      singleCharWithImages == singleCharBytes + imageBytes
  IN IF singleCharWithImages > lim.maxBytes
       THEN LimitExceededError("maxBytes", singleCharWithImages, lim.maxBytes)
     ELSE IF 1 > lim.maxChars
       THEN LimitExceededError("maxChars", 1, lim.maxChars)
     ELSE NoError

\* chunker.cjs chunkInput before the loop: the input check and the
\* unsplittable-input guard
chunkInputGuard ==
  /\ pc = "chunkInput"
  /\ UNCHANGED <<inputs, caller, presets, resolved, limits, fit, metadata, partitioned>>
  /\ IF Len(text) = 0
       THEN /\ Throw(InvalidInputError)
            /\ UNCHANGED <<chunks, starts, currentIndex, chunkIndex>>
     ELSE
       \* const chunks = []
       /\ chunks' = << >>
       /\ starts' = << >>
       /\ IF unsplittableGuard(images, limits) # NoError
            THEN /\ Throw(unsplittableGuard(images, limits))
                 /\ UNCHANGED <<currentIndex, chunkIndex>>
          ELSE
            \* let currentIndex = 0; let chunkIndex = 0
            /\ currentIndex' = 0
            /\ chunkIndex' = 0
            /\ pc' = "loop"
            /\ UNCHANGED err

\* one pass through the body of the while loop of chunkInput, from the cursor
\* cur with chunkIndex ci: the chunk it cuts and the error it throws (NoError
\* when the pass ends normally).  pushed tells whether the chunk was pushed
\* before the throw.
iteration(v, t, imgs, lim, rwb, cur, ci) ==
  LET imageBytes               == getImagesByteSize(imgs)
      availableBytesForText    == lim.maxBytes - imageBytes
      availableCharsForText    == Min(lim.maxChars, availableBytesForText \div 2)
      remainingText            == Slice(t, cur, Len(t))
      remainingBytes           == getTextByteSize(remainingText)
      isFirstChunk             == ci = 0
      remainingBytesWithImages == remainingBytes + (IF isFirstChunk THEN imageBytes ELSE 0)
      maxChunkBytes            == IF isFirstChunk THEN availableBytesForText ELSE lim.maxBytes
      maxChunkChars            == IF isFirstChunk THEN availableCharsForText ELSE lim.maxChars
      estimatedMaxChars        == maxChunkBytes \div 2
      targetChars              == Min(maxChunkChars, estimatedMaxChars)
      split1                   == selectSplit(remainingText, targetChars, rwb)
      chunkText1               == Slice(remainingText, 0, split1)
      chunkBytes               == getTextByteSize(chunkText1)
      chunkImageBytes          == IF isFirstChunk THEN imageBytes ELSE 0
      totalChunkBytes          == chunkBytes + chunkImageBytes
      split2                   == verifyBytes(remainingText, split1, chunkImageBytes, maxChunkBytes)
      splitPoint               == correctTokens(remainingText, split2, lim.maxTokens)
      chunkText                == Slice(remainingText, 0, splitPoint)
      chunk                    == [text |-> chunkText,
                                   images |-> chunkImages(isFirstChunk, imgs),
                                   index |-> ci]
      none                     == [text |-> << >>, images |-> << >>, index |-> ci]
  IN
  IF remainingBytesWithImages > lim.maxBytes /\ Len(remainingText) <= 1
    THEN [pushed |-> FALSE, chunk |-> none, splitPoint |-> 0,
          err |-> LimitExceededError("maxBytes", remainingBytesWithImages, lim.maxBytes)]
  ELSE IF Len(remainingText) > lim.maxChars /\ Len(remainingText) <= 1
    THEN [pushed |-> FALSE, chunk |-> none, splitPoint |-> 0,
          err |-> LimitExceededError("maxChars", Len(remainingText), lim.maxChars)]
  ELSE IF v = "esm" /\ (Len(chunkText1) > lim.maxChars \/ chunkBytes > maxChunkBytes)
    THEN [pushed |-> FALSE, chunk |-> none, splitPoint |-> 0,
          err |-> LimitExceededError(
                    IF chunkBytes > maxChunkBytes THEN "maxBytes" ELSE "maxChars",
                    Max(Len(chunkText1), chunkBytes),
                    Min(lim.maxChars, maxChunkBytes))]
  ELSE IF zeroProgress(splitPoint)
    THEN [pushed |-> TRUE, chunk |-> chunk, splitPoint |-> 0,
          err |-> LimitExceededError(
                    "maxBytes",
                    IF v = "esm" THEN totalChunkBytes
                                 ELSE getTextByteSize(chunkText) + chunkImageBytes,
                    maxChunkBytes)]
  ELSE [pushed |-> TRUE, chunk |-> chunk, splitPoint |-> splitPoint, err |-> NoError]

\* chunker.cjs chunkInput: one iteration of the while loop; the iteration that
\* leaves the loop returns to chunkPrompt, which computes the metadata
chunkInputIteration ==
  /\ pc = "loop"
  /\ Len(chunks) < MaxChunks
  /\ UNCHANGED <<inputs, caller, presets, resolved, limits, fit, partitioned>>
  /\ LET r == iteration(variant, text, images, limits, respectWordBoundaries,
                        currentIndex, chunkIndex)
         cs == IF r.pushed THEN Append(chunks, r.chunk) ELSE chunks
         next == advance(currentIndex, r.splitPoint, chunkOverlap, Len(text))
     IN /\ chunks' = cs
        /\ starts' = IF r.pushed THEN Append(starts, currentIndex) ELSE starts
        /\ IF r.err # NoError
             THEN /\ Throw(r.err)
                  /\ currentIndex' = IF r.pushed THEN next ELSE currentIndex
                  /\ chunkIndex' = IF r.pushed THEN nextChunkIndex(chunkIndex) ELSE chunkIndex
                  /\ UNCHANGED metadata
             ELSE /\ currentIndex' = next
                  /\ chunkIndex' = nextChunkIndex(chunkIndex)
                  /\ UNCHANGED err
                  /\ IF next < Len(text)
                       THEN pc' = "loop" /\ UNCHANGED metadata
                       ELSE pc' = "done" /\ metadata' = calculateMetadata(cs)

Next == chunkPrompt \/ chunkInputGuard \/ chunkInputIteration

Spec == Init /\ [][Next]_vars

\* the loop body runs whenever the loop condition holds
FairSpec == Spec /\ WF_vars(Next)

\* the calls with a negative limit
NegSpec == NegInit /\ [][Next]_vars

\* calls with longer texts of words and a larger overlap
WideInit ==
  /\ variant = "cjs"
  /\ provider = "openai" /\ model = "gpt-4o"
  /\ text \in TextsOver(LongAlphabet, WideLen)
  /\ images \in ImageSeqs
  /\ customLimits \in [maxTokens : {WideTokens}, maxChars : (WideChars - 1)..WideChars,
                        maxBytes : {2 * WideChars, 2 * WideLen}, maxImages : {MaxImages},
                        imageByteLimit : {MaxImageSize}]
  /\ chunkOverlap \in 1..WideOverlap
  /\ respectWordBoundaries \in BOOLEAN
  /\ InitCall

WideSpec == WideInit /\ [][Next]_vars

\* the customLimits of a call the caller makes between two equal calls: every
\* field overridden
OtherCustomLimits ==
  [maxTokens : {MaxTokensLimit}, maxChars : {MaxCallLen - 1}, maxBytes : {MaxCallLen},
   maxImages : {MaxImages - 1, MaxImages}, imageByteLimit : {MaxImageSize}]

\* index.cjs chunkPrompt entered once more after a call returned or threw, with
\* the customLimits custom and the other arguments as before.  The variables of
\* chunkPrompt and chunkInput are new in every call, as in the first; the
\* module (the PROVIDER_LIMITS object) is as the earlier calls left it
enterCall(custom) ==
  /\ pc \in {"done", "error"}
  /\ pc' = "chunkPrompt"
  /\ customLimits' = custom
  /\ resolved' = NotResolved
  /\ limits' = NoLimits
  /\ currentIndex' = 0
  /\ chunkIndex' = 0
  /\ chunks' = << >>
  /\ starts' = << >>
  /\ metadata' = NoMetadata
  /\ err' = NoError
  /\ partitioned' = FALSE
  /\ UNCHANGED <<variant, provider, model, text, images, chunkOverlap, respectWordBoundaries,
                 presets, fit>>

\* after its first call the caller makes a call with other customLimits
chunkPromptOther ==
  /\ caller.calls = 1
  /\ caller' = [caller EXCEPT !.calls = 2, !.outcome = Outcome(pc, chunks, metadata, err)]
  /\ \E custom \in OtherCustomLimits : enterCall(custom)

\* the caller makes its first call again, with the same arguments, straight
\* after it or after the call made in between
chunkPromptAgain ==
  /\ caller.calls \in {1, 2}
  /\ caller' = IF caller.calls = 1
                 THEN [caller EXCEPT !.calls = 3, !.outcome = Outcome(pc, chunks, metadata, err)]
                 ELSE [caller EXCEPT !.calls = 3, !.between = Outcome(pc, chunks, metadata, err)]
  /\ enterCall(caller.customLimits)

TwiceNext == Next \/ chunkPromptOther \/ chunkPromptAgain

\* the same call made twice, with or without another call in between
TwiceSpec == Init /\ [][TwiceNext]_vars

\* limits.cjs checkFits and validateLimits called on their own
FitInit ==
  /\ variant = "cjs"
  /\ provider = "openai" /\ model = "gpt-4o"
  /\ text \in TextsOver(ShortAlphabet, MaxLen)
  /\ images \in ImageSeqs
  /\ customLimits = << >>
  /\ chunkOverlap = 0
  /\ respectWordBoundaries = TRUE
  /\ presets = PROVIDER_LIMITS
  /\ resolved = NotResolved
  /\ limits \in ShortLimits
  /\ pc = "fit"
  /\ currentIndex = 0
  /\ chunkIndex = 0
  /\ chunks = << >>
  /\ starts = << >>
  /\ metadata = NoMetadata
  /\ err = NoError
  /\ partitioned = FALSE
  /\ fit = NoFit
  /\ caller = FirstCall(customLimits)

checkFitsCall ==
  /\ pc = "fit"
  /\ fit' = checkFits(text, images, limits)
  /\ pc' = "done"
  /\ UNCHANGED <<inputs, caller, presets, resolved, limits, currentIndex, chunkIndex, chunks,
                 starts, metadata, err, partitioned>>

validateLimitsCall ==
  /\ pc = "fit"
  /\ IF validateLimits(text, images, limits) # NoError
       THEN Throw(validateLimits(text, images, limits))
       ELSE pc' = "done" /\ UNCHANGED err
  /\ UNCHANGED <<inputs, caller, presets, resolved, limits, currentIndex, chunkIndex, chunks,
                 starts, metadata, fit, partitioned>>

FitNext == checkFitsCall \/ validateLimitsCall

FitSpec == FitInit /\ [][FitNext]_vars

\* the while loop of chunkInput of variant v, from the cursor cur with
\* chunkIndex ci and the chunks cs: what it returns or throws; "running" when
\* it is still looping after fuel iterations
RECURSIVE runLoop(_, _, _, _, _, _, _, _, _, _)
runLoop(v, t, imgs, lim, overlap, rwb, cur, ci, cs, fuel) ==
  IF fuel = 0
    THEN [kind |-> "running", chunks |-> << >>, err |-> NoError]
  ELSE LET r    == iteration(v, t, imgs, lim, rwb, cur, ci)
           next == advance(cur, r.splitPoint, overlap, Len(t))
       IN IF r.err # NoError
            THEN [kind |-> "error", chunks |-> << >>, err |-> r.err]
          ELSE IF next < Len(t)
            THEN runLoop(v, t, imgs, lim, overlap, rwb, next, nextChunkIndex(ci),
                         Append(cs, r.chunk), fuel - 1)
          ELSE [kind |-> "done", chunks |-> Append(cs, r.chunk), err |-> NoError]

\* chunkInput of variant v ("esm": chunker.js, "cjs": chunker.cjs) as a
\* function of its arguments
chunkInput(v, t, imgs, lim, overlap, rwb) ==
  IF Len(t) = 0
    THEN [kind |-> "error", chunks |-> << >>, err |-> InvalidInputError]
  ELSE IF unsplittableGuard(imgs, lim) # NoError
    THEN [kind |-> "error", chunks |-> << >>, err |-> unsplittableGuard(imgs, lim)]
  ELSE runLoop(v, t, imgs, lim, overlap, rwb, 0, 0, << >>, MaxChunks + 1)

\* ------------------------------------------------------------ properties
Returned == pc = "done"
Failed == pc = "error"

ChunkBytes(c) == getTextByteSize(c.text) + getImagesByteSize(c.images)

RECURSIVE ConcatTexts(_, _)
ConcatTexts(cs, p) == IF p > Len(cs) THEN << >> ELSE cs[p].text \o ConcatTexts(cs, p + 1)

\* provider, model and input are non-empty strings
ValidArguments == provider # "" /\ model # "" /\ Len(text) >= 1

\* the preset table has the provider
KnownProvider == provider \in DOMAIN PROVIDER_LIMITS

\* the images pass the count and size limits
ImagesWithinLimits ==
  /\ Len(images) <= limits.maxImages
  /\ \A i \in 1..Len(images) : images[i] <= limits.imageByteLimit

\* the input fits the limits as one unit
FitsAsOneUnit ==
  /\ getTextByteSize(text) + getImagesByteSize(images) <= limits.maxBytes
  /\ Len(text) <= limits.maxChars
  /\ CeilDiv4(Len(text)) <= limits.maxTokens

\* the last k and the first k characters of s: s.slice(-k), s.slice(0, k)
LastChars(s, k) == Slice(s, Len(s) - Min(k, Len(s)), Len(s))
FirstChars(s, k) == Slice(s, 0, k)

\* some non-empty chunk cut at offset start satisfies maxBytes (with the images
\* when it is the first chunk), maxChars and maxTokens
CanComply(start, isFirstChunk) ==
  \E n \in 1..(Len(text) - start) :
    /\ getTextByteSize(Slice(text, start, start + n))
         + (IF isFirstChunk THEN getImagesByteSize(images) ELSE 0) <= limits.maxBytes
    /\ n <= limits.maxChars
    /\ CeilDiv4(n) <= limits.maxTokens

\* C1: every chunk of a returned result has text bytes + attached image bytes
\* <= maxBytes and text length <= maxChars
C1_PerChunkCapacity ==
  Returned =>
    \A i \in 1..Len(chunks) :
      /\ ChunkBytes(chunks[i]) <= limits.maxBytes
      /\ Len(chunks[i].text) <= limits.maxChars

\* C2: the partitioning loop terminates.  The loop body is a function of the
\* cursor and of whether the chunk is the first one, so a run that is about to
\* cut a later chunk at a cursor where it already cut a later chunk repeats
\* itself for ever; a terminating loop is never in that state
C2_LoopNeverRepeats ==
  ~(pc = "loop" /\ \E i \in 2..Len(starts) : starts[i] = currentIndex)

\* C3: with chunkOverlap = 0 the chunk texts of a returned result, concatenated
\* in index order, are the input text
C3_Lossless ==
  (Returned /\ chunkOverlap = 0) => ConcatTexts(chunks, 1) = text

C3_Witness ==
  /\ Returned /\ chunkOverlap = 0 /\ Len(chunks) >= 3
  /\ \E i \in 1..Len(chunks) : getTextByteSize(chunks[i].text) > Len(chunks[i].text)

\* C4: every chunk of a returned result has estimateTokens(text) <= maxTokens,
\* and no result is returned when, at some cut, no non-empty chunk could satisfy
\* maxBytes, maxChars and maxTokens together
C4_TokenLimit ==
  Returned =>
    \A i \in 1..Len(chunks) :
      /\ estimateTokens(chunks[i].text) <= limits.maxTokens
      /\ CanComply(starts[i], i = 1)

\* a returned result whose first chunk was cut down from five characters to the
\* four that one token allows
C4_Witness ==
  /\ Returned /\ partitioned
  /\ limits.maxTokens = 1 /\ limits.maxChars >= 5 /\ images = << >>
  /\ Len(text) >= 5
  /\ Len(chunks[1].text) = 4

\* every single character of the text can make a chunk: the first one together
\* with all images, every other one on its own (a surrogate pair counts as one
\* character)
EverySingleCharFits ==
  /\ Len(text) >= 1
  /\ limits.maxChars >= 1
  /\ limits.maxTokens >= 1
  /\ getTextByteSize(Slice(text, 0, 1)) + getImagesByteSize(images) <= limits.maxBytes
  /\ \A j \in 1..(Len(text) - 1) :
       /\ getTextByteSize(Slice(text, j, j + 1)) <= limits.maxBytes
       /\ (text[j] = "H" /\ text[j + 1] = "L") =>
            getTextByteSize(Slice(text, j - 1, j + 1))
              + (IF j = 1 THEN getImagesByteSize(images) ELSE 0) <= limits.maxBytes

\* C5: with chunkOverlap = 0, when every single character fits the limits the
\* call does not fail with LimitExceededError
C5_FailsOnlyWhenNoCharFits ==
  (chunkOverlap = 0 /\ EverySingleCharFits) =>
    ~(Failed /\ err.kind = "LimitExceededError")

\* C6: an input that fits the limits as one unit is returned as the single
\* chunk 0 with the input text and all images, without the partitioner
C6_SingleChunkShortCircuit ==
  (pc # "chunkPrompt" /\ ValidArguments /\ KnownProvider /\ ImagesWithinLimits
     /\ FitsAsOneUnit) =>
    /\ Returned
    /\ chunks = <<[text |-> text, images |-> images, index |-> 0]>>
    /\ metadata.totalChunks = 1
    /\ ~partitioned

\* an input of several characters with images that is exactly at the byte limit
C6_Witness ==
  /\ Returned /\ ~partitioned
  /\ Len(text) >= 2 /\ Len(images) >= 1
  /\ getTextByteSize(text) + getImagesByteSize(images) = limits.maxBytes

\* C7: a returned result for an input that does not fit as one unit has more
\* than one chunk
C7_MultipleChunks ==
  (Returned /\ ~FitsAsOneUnit) => (Len(chunks) > 1 /\ metadata.totalChunks > 1)

\* C8: chunk 0 of a returned result carries the whole image sequence and every
\* later chunk carries none
C8_ImagePlacement ==
  Returned =>
    /\ Len(chunks) >= 1
    /\ chunks[1].images = images
    /\ \A i \in 2..Len(chunks) : chunks[i].images = << >>

C8_Witness ==
  Returned /\ Len(chunks) >= 3 /\ Len(images) = 2

\* C9 as claimed: with chunkOverlap = k > 0 and more than one chunk, the last k
\* characters of chunk i are the first k characters of chunk i+1
C9_OverlapDuplication ==
  (Returned /\ chunkOverlap > 0 /\ Len(chunks) > 1) =>
    \A i \in 1..(Len(chunks) - 1) :
      LastChars(chunks[i].text, chunkOverlap) = FirstChars(chunks[i + 1].text, chunkOverlap)

\* C9 as amended: the last min(k, length of chunk i) characters of chunk i are
\* the first min(k, length of chunk i) characters of chunk i+1
C9_OverlapDuplicationUpToChunkLength ==
  (Returned /\ chunkOverlap > 0 /\ Len(chunks) > 1) =>
    \A i \in 1..(Len(chunks) - 1) :
      LET k == Min(chunkOverlap, Len(chunks[i].text))
      IN /\ Len(chunks[i + 1].text) >= k
         /\ LastChars(chunks[i].text, k) = FirstChars(chunks[i + 1].text, k)

\* three chunks, the overlap shorter than the first two, the text not uniform
C9_Witness ==
  /\ Returned /\ chunkOverlap > 0 /\ Len(chunks) >= 3
  /\ \A i \in 1..2 : Len(chunks[i].text) > chunkOverlap
  /\ \E j \in 2..Len(text) : text[j] # text[1]

\* chunk 0's text, then every later chunk's text without its leading overlap
\* region: the first min(k, length of the previous chunk) characters
RECURSIVE StripOverlaps(_, _, _)
StripOverlaps(cs, k, p) ==
  IF p > Len(cs) THEN << >>
  ELSE (IF p = 1 THEN cs[p].text
        ELSE Slice(cs[p].text, Min(k, Len(cs[p - 1].text)), Len(cs[p].text)))
       \o StripOverlaps(cs, k, p + 1)

\* C10: the chunk texts of a returned result, each later one without its
\* leading overlap region, concatenate to the input text; every input character
\* lies in some chunk; the chunks' start offsets never decrease
C10_ReconstructionWithOverlap ==
  Returned =>
    /\ StripOverlaps(chunks, chunkOverlap, 1) = text
    /\ \A j \in 1..Len(text) :
         \E i \in 1..Len(chunks) : starts[i] < j /\ j <= starts[i] + Len(chunks[i].text)
    /\ \A i \in 1..(Len(starts) - 1) : starts[i] <= starts[i + 1]

\* an overlapped result of three chunks that step forward, and one whose first
\* chunk is shorter than the overlap are both reached; this is the former
C10_Witness ==
  /\ Returned /\ chunkOverlap = 2 /\ Len(chunks) >= 3
  /\ starts[2] > 0 /\ starts[3] > starts[2]
  /\ \E j \in 2..Len(text) : text[j] # text[1]

\* C11: the chunk at position n of a returned result has index n (0-based), and
\* metadata.totalChunks is the number of chunks
C11_ContiguousIndices ==
  Returned =>
    /\ \A n \in 1..Len(chunks) : chunks[n].index = n - 1
    /\ metadata.totalChunks = Len(chunks)

C11_Witness ==
  Returned /\ Len(chunks) >= 4 /\ chunkOverlap > 0

\* C12: no returned chunk has empty text; once a pass has cut an empty chunk
\* the call has failed with LimitExceededError
C12_NoEmptyChunk ==
  (\E i \in 1..Len(chunks) : Len(chunks[i].text) = 0) =>
    (Failed /\ err.kind = "LimitExceededError")

\* a call that failed on cutting an empty second chunk
C12_Witness ==
  /\ Failed /\ err.kind = "LimitExceededError"
  /\ Len(chunks) = 2 /\ Len(chunks[2].text) = 0 /\ Len(chunks[1].text) > 0

\* C13: every LimitExceededError names maxBytes, maxChars or maxTokens and
\* carries actual > allowed
C13_ErrorNamesViolatedLimit ==
  (Failed /\ err.kind = "LimitExceededError") =>
    /\ err.limit \in {"maxBytes", "maxChars", "maxTokens"}
    /\ err.actual > err.allowed

\* C14: the first failing check decides the error: invalid arguments fail with
\* InvalidInputError before the lookup and before any limits exist; then an
\* unknown provider fails with ProviderNotSupportedError; then images over
\* their limits fail with ImageLimitError; LimitExceededError comes only after
\* all of these passed
C14_CheckOrder ==
  pc # "chunkPrompt" =>
    /\ ~ValidArguments =>
         /\ Failed /\ err = InvalidInputError
         /\ resolved = NotResolved /\ limits = NoLimits
         /\ chunks = << >> /\ ~partitioned
    /\ (ValidArguments /\ ~KnownProvider) =>
         (Failed /\ err.kind = "ProviderNotSupportedError" /\ limits = NoLimits)
    /\ (ValidArguments /\ KnownProvider /\ ~ImagesWithinLimits) =>
         (Failed /\ err.kind = "ImageLimitError")
    /\ (Failed /\ err.kind = "LimitExceededError") =>
         (ValidArguments /\ KnownProvider /\ ImagesWithinLimits)

\* a call without input, to a provider the table does not have, with more
\* images than any limit allows
C14_Witness ==
  /\ Failed /\ err.kind = "InvalidInputError"
  /\ Len(text) = 0 /\ provider = "nosuch" /\ model # ""
  /\ Len(images) > MaxImages

\* the index (0-based) of the first image larger than imageByteLimit
LowestOffending ==
  LET over == {i \in 1..Len(images) : images[i] > limits.imageByteLimit}
  IN (CHOOSE i \in over : \A j \in over : i <= j) - 1

\* C15: more images than maxImages fail with ImageLimitError carrying the
\* number of images and maxImages, whatever the sizes; otherwise an image
\* larger than imageByteLimit fails with ImageLimitError naming the lowest such
\* index; no chunks are returned
C15_ImageValidation ==
  (pc # "chunkPrompt" /\ ValidArguments /\ KnownProvider) =>
    IF Len(images) > limits.maxImages
      THEN /\ Failed /\ err.kind = "ImageLimitError"
           /\ err.limit = "maxImages exceeded"
           /\ err.actual = Len(images) /\ err.allowed = limits.maxImages
           /\ chunks = << >>
    ELSE IF \E i \in 1..Len(images) : images[i] > limits.imageByteLimit
      THEN /\ Failed /\ err.kind = "ImageLimitError"
           /\ err.limit = "imageByteLimit exceeded"
           /\ err.imageIndex = LowestOffending
           /\ err.actual = images[LowestOffending + 1]
           /\ err.allowed = limits.imageByteLimit
           /\ chunks = << >>
    ELSE ~(Failed /\ err.kind = "ImageLimitError")

\* too many images, one of them too large as well: the count is reported
C15_Witness ==
  /\ Failed /\ err.kind = "ImageLimitError" /\ err.limit = "maxImages exceeded"
  /\ limits.maxImages >= 1
  /\ \E i \in 1..Len(images) : images[i] > limits.imageByteLimit

\* the first dimension the input violates, in the order bytes, characters,
\* tokens, with its actual and allowed values; Fits when there is none
FirstViolated ==
  LET bytes  == SumBytes(text, 1) + SumSeq(images, 1)
      tokens == CeilDiv4(Len(text))
  IN CASE bytes > limits.maxBytes      -> NotFits("maxBytes", bytes, limits.maxBytes)
       [] bytes <= limits.maxBytes /\ Len(text) > limits.maxChars
                                       -> NotFits("maxChars", Len(text), limits.maxChars)
       [] bytes <= limits.maxBytes /\ Len(text) <= limits.maxChars
            /\ tokens > limits.maxTokens
                                       -> NotFits("maxTokens", tokens, limits.maxTokens)
       [] OTHER                        -> Fits

\* C16: checkFits reports, and validateLimits throws, the first violated
\* dimension in the order bytes, characters, tokens with its actual and allowed
\* values; they report a fit (return) only when no dimension is violated
C16_FitCheckOrder ==
  /\ fit # NoFit => fit = FirstViolated
  /\ (pc \in {"done", "error"} /\ fit = NoFit) =>
       IF FirstViolated.fits
         THEN pc = "done" /\ err = NoError
         ELSE /\ pc = "error"
              /\ err = LimitExceededError(FirstViolated.reason, FirstViolated.actual,
                                          FirstViolated.allowed)

\* bytes reported although characters and tokens are violated too
C16_Witness ==
  /\ fit.reason = "maxBytes"
  /\ Len(text) > limits.maxChars
  /\ CeilDiv4(Len(text)) > limits.maxTokens

\* C17: the lookup returns the provider's entry for the model when it has one,
\* the provider's default entry otherwise, and not-found only for a provider
\* the table does not have; chunkPrompt fails with ProviderNotSupportedError
\* exactly when the lookup returned not-found
C17_LimitsResolution ==
  resolved # NotResolved =>
    /\ KnownProvider =>
         resolved = Entry(IF model \in DOMAIN PROVIDER_LIMITS[provider]
                            THEN PROVIDER_LIMITS[provider][model]
                            ELSE PROVIDER_LIMITS[provider]["default"])
    /\ ~KnownProvider => resolved = Null
    /\ (Failed /\ err.kind = "ProviderNotSupportedError") <=> resolved = Null

\* the limits the call works with: each field from customLimits when it has
\* the field, from the preset entry otherwise
EffectiveLimits ==
  LET preset == IF model \in DOMAIN PROVIDER_LIMITS[provider]
                  THEN PROVIDER_LIMITS[provider][model]
                  ELSE PROVIDER_LIMITS[provider]["default"]
  IN [f \in Fields |-> IF f \in DOMAIN customLimits THEN customLimits[f] ELSE preset[f]]

\* C18: after resolution to a preset entry the limits are the entry with the
\* fields of customLimits replaced; image validation, the fit check and the
\* partitioner work with these; the preset table never changes
C18_CustomLimitsOverride ==
  /\ presets = PROVIDER_LIMITS
  /\ resolved.tag = "limits" =>
       /\ limits = EffectiveLimits
       /\ Len(images) > EffectiveLimits.maxImages => (Failed /\ err.kind = "ImageLimitError")
       /\ (Returned /\ ~partitioned) =>
            /\ Len(text) <= EffectiveLimits.maxChars
            /\ SumBytes(text, 1) + SumSeq(images, 1) <= EffectiveLimits.maxBytes
       /\ (Returned /\ partitioned) =>
            \A i \in 1..Len(chunks) : ChunkBytes(chunks[i]) <= EffectiveLimits.maxBytes

\* a call that overrides maxChars alone and is partitioned by it, the byte and
\* token limits being the preset's
C18_Witness ==
  /\ Returned /\ Len(chunks) = 2
  /\ DOMAIN customLimits = {"maxChars"}
  /\ model = "nomodel"
  /\ presets = PROVIDER_LIMITS

\* C19: a call with an empty text or a negative limit fails with
\* InvalidInputError: it returns no chunks and fails with no other error; the
\* cursor stays within 0..length(text)
C19_PartitionerPrecondition ==
  /\ currentIndex >= 0 /\ currentIndex <= Len(text)
  /\ (pc \in {"done", "error"} /\ (Len(text) = 0 \/ \E f \in Fields : customLimits[f] < 0)) =>
       (Failed /\ err.kind = "InvalidInputError")

\* the tokens and bytes of the chunks, from the input: chunk i is the
\* characters of the text from starts[i], as many as the chunk has
RECURSIVE TokensFrom(_)
TokensFrom(p) ==
  IF p > Len(chunks) THEN 0 ELSE CeilDiv4(Len(chunks[p].text)) + TokensFrom(p + 1)

RECURSIVE TextBytesFrom(_)
TextBytesFrom(p) ==
  IF p > Len(chunks) THEN 0
  ELSE LET piece == Slice(text, starts[p], starts[p] + Len(chunks[p].text))
       IN (IF Len(piece) = 0 THEN 0 ELSE SumBytes(piece, 1)) + TextBytesFrom(p + 1)

\* C20: metadata.estimatedTokens is the sum over the chunks of ceil(length/4);
\* metadata.estimatedBytes is the sum over the chunks of the bytes of the
\* chunk's part of the text, overlaps counted in each chunk that has them,
\* plus the sizes of the images once
C20_MetadataAggregation ==
  Returned =>
    /\ metadata.estimatedTokens = TokensFrom(1)
    /\ metadata.estimatedBytes = TextBytesFrom(1) + SumSeq(images, 1)

\* overlapping chunks with images: more bytes than the input has
C20_Witness ==
  /\ Returned /\ chunkOverlap > 0 /\ Len(chunks) >= 3 /\ Len(images) >= 1
  /\ metadata.estimatedBytes > SumBytes(text, 1) + SumSeq(images, 1)
  /\ metadata.estimatedTokens > CeilDiv4(Len(text))

\* C21: determinism: a call of chunkPrompt with the same provider, model,
\* text, images, limits and options as an earlier call gives what the earlier
\* call gave, whatever the caller called in between: the same chunk sequence
\* and metadata, or the same error with the same limit, actual and allowed.
C21_Determinism ==
  (caller.calls = 3 /\ pc \in {"done", "error"})
    => Outcome(pc, chunks, metadata, err) = caller.outcome

\* the first call had customLimits for a part of the fields and returned
\* several chunks, the first of them with an image; a call with other limits
\* came in between and threw; the first call made again has returned
C21_Witness ==
  /\ caller.calls = 3
  /\ DOMAIN caller.customLimits # Fields
  /\ caller.between.kind = "error"
  /\ Returned /\ partitioned
  /\ Len(chunks) >= 2 /\ Len(chunks[1].images) >= 1

\* C22: before any loop iteration and before any chunk is produced,
\* chunkInput fails with limit maxBytes (actual 1 + total image bytes, allowed
\* maxBytes) if one single-byte character with all the images exceeds
\* maxBytes, and otherwise with limit maxChars (actual 1, allowed maxChars)
\* if maxChars < 1; when both are impossible the byte check is reported.
C22_UnsplittableGuard ==
  (partitioned /\ pc # "chunkInput") =>
    LET oneCharWithImages == 1 + getImagesByteSize(images)
    IN IF oneCharWithImages > limits.maxBytes
         THEN /\ Failed /\ chunks = << >>
              /\ err = LimitExceededError("maxBytes", oneCharWithImages, limits.maxBytes)
       ELSE IF limits.maxChars < 1
         THEN /\ Failed /\ chunks = << >>
              /\ err = LimitExceededError("maxChars", 1, limits.maxChars)
       ELSE TRUE

\* a call with images for which both a one-character chunk is too large and
\* maxChars is 0: it failed on maxBytes
C22_Witness ==
  /\ partitioned /\ Failed
  /\ Len(images) >= 1
  /\ 1 + getImagesByteSize(images) > limits.maxBytes
  /\ limits.maxChars < 1
  /\ err.limit = "maxBytes"

\* the loop iteration that cut chunks[i]: its budgets, the text it had left,
\* and the split point after boundary selection, after byte verification and
\* after token correction
CutImageBytes(i) == IF chunks[i].index = 0 THEN getImagesByteSize(images) ELSE 0
CutMaxChunkBytes(i) == limits.maxBytes - CutImageBytes(i)
CutTargetChars(i) == Min(limits.maxChars, CutMaxChunkBytes(i) \div 2)
CutRemaining(i) == Slice(text, starts[i], Len(text))
CutCandidate(i) == selectSplit(CutRemaining(i), CutTargetChars(i), respectWordBoundaries)
CutVerified(i) ==
  verifyBytes(CutRemaining(i), CutCandidate(i), CutImageBytes(i), CutMaxChunkBytes(i))
CutCorrected(i) == correctTokens(CutRemaining(i), CutVerified(i), limits.maxTokens)
Prefix(t, n) == Slice(t, 0, n)

\* C23: when the unsplittable-input guard passes (1 + total image bytes <=
\* maxBytes and maxChars >= 1) no loop iteration computes a split point of 0
\* characters: no chunk the loop cuts is empty.
C23_ZeroProgressUnreachable ==
  (partitioned /\ 1 + getImagesByteSize(images) <= limits.maxBytes /\ limits.maxChars >= 1)
    => \A i \in 1..Len(chunks) : Len(chunks[i].text) >= 1

\* the longest prefix of the candidate of chunks[i] that fits maxBytes
\* together with the images attached to the chunk
LongestFitting(i) ==
  LET fitting == {n \in 0..CutCandidate(i) :
                    getTextByteSize(Prefix(CutRemaining(i), n)) + CutImageBytes(i)
                      <= limits.maxBytes}
  IN CHOOSE n \in fitting : \A m \in fitting : m <= n

\* C24: when the exact byte length of the candidate (plus the image bytes on
\* the first chunk) exceeds the chunk's byte budget, byte verification cuts
\* the candidate to its longest prefix with text bytes + attached image
\* bytes <= maxBytes, so the call does not fail while a non-empty prefix fits.
C24_ExactByteVerification ==
  partitioned =>
    \A i \in 1..Len(chunks) :
      getTextByteSize(Prefix(CutRemaining(i), CutCandidate(i))) + CutImageBytes(i)
          > CutMaxChunkBytes(i)
        => CutVerified(i) = LongestFitting(i)

\* the split points p, at most SentenceWindow characters back from the
\* candidate offset c, where a sentence terminator immediately followed by
\* whitespace ends at p or has its whitespace at p
SentencePoints(t, c) ==
  {p \in (Max(0, c - SentenceWindow) + 1)..c :
     \/ p >= 2 /\ IsTerminator(t[p - 1]) /\ IsSpace(t[p])
     \/ IsTerminator(t[p]) /\ IsSpace(t[p + 1])}

\* the offsets p, at most WordWindow characters back from the candidate
\* offset c, of a whitespace character
WordPoints(t, c) == {p \in (Max(0, c - WordWindow) + 1)..c : IsSpace(t[p + 1])}

Highest(S) == CHOOSE p \in S : \A q \in S : q <= p

\* where the claimed order puts the split of a text t longer than the
\* candidate offset c
ExpectedSplit(t, c, rwb) ==
  IF ~rwb THEN c
  ELSE IF SentencePoints(t, c) # {} THEN Highest(SentencePoints(t, c))
  ELSE IF WordPoints(t, c) # {} THEN Highest(WordPoints(t, c)) + 1
  ELSE c

\* C25: with respectWordBoundaries and more text left than the candidate
\* length, the split is the first point, scanning back at most 200
\* characters from the candidate offset, where a sentence terminator is
\* immediately followed by whitespace, even if a plain whitespace is closer;
\* if there is none, the position just after the first whitespace found
\* scanning back at most 100 characters; if there is none either, the
\* candidate offset.  Without respectWordBoundaries it is the candidate offset.
C25_BoundarySelectionOrder ==
  partitioned =>
    \A i \in 1..Len(chunks) :
      Len(CutRemaining(i)) > CutTargetChars(i)
        => CutCandidate(i)
             = ExpectedSplit(CutRemaining(i), CutTargetChars(i), respectWordBoundaries)

\* C26: token correction only shortens: the text of a chunk is a prefix of
\* the text chosen by boundary selection and byte verification, has at most
\* maxTokens * 4 characters, and keeps within the byte and character budgets
\* the verified text was within, for both respectWordBoundaries settings.
C26_TokenCorrectionOnlyShortens ==
  partitioned =>
    \A i \in 1..Len(chunks) :
      LET verified == Prefix(CutRemaining(i), CutVerified(i))
          final    == chunks[i].text
      IN /\ final = Prefix(CutRemaining(i), CutCorrected(i))
         /\ Len(final) <= Len(verified)
         /\ final = Prefix(verified, Len(final))
         /\ Len(final) <= limits.maxTokens * 4
         /\ Len(verified) <= limits.maxChars => Len(final) <= limits.maxChars
         /\ getTextByteSize(verified) <= CutMaxChunkBytes(i)
              => getTextByteSize(final) <= CutMaxChunkBytes(i)
         /\ getTextByteSize(verified) + CutImageBytes(i) <= limits.maxBytes
              => ChunkBytes(chunks[i]) <= limits.maxBytes

\* a returned call with a chunk that token correction cut shorter than the
\* verified text, without emptying it
C26_Witness ==
  /\ Returned /\ partitioned
  /\ \E i \in 1..Len(chunks) :
       /\ CutCorrected(i) < CutVerified(i)
       /\ Len(chunks[i].text) = CutCorrected(i)
       /\ CutCorrected(i) >= 1

\* the cursor after the iteration that cut chunks[i]
CursorAfter(i) == IF i < Len(chunks) THEN starts[i + 1] ELSE currentIndex

\* C27: after a chunk that consumed c characters the cursor advances by c
\* and, if chunkOverlap > 0 and text remains, steps back by
\* min(chunkOverlap, c): it never moves before the start of the chunk just
\* emitted, and it is strictly greater than before when chunkOverlap < c.
C27_CursorAdvance ==
  partitioned =>
    \A i \in 1..Len(chunks) :
      LET c     == Len(chunks[i].text)
          moved == starts[i] + c
      IN c >= 1 =>
           /\ CursorAfter(i) = IF chunkOverlap > 0 /\ moved < Len(text)
                                 THEN moved - Min(chunkOverlap, c)
                                 ELSE moved
           /\ CursorAfter(i) >= starts[i]
           /\ chunkOverlap < c => CursorAfter(i) > starts[i]

\* a chunk shorter than the overlap was emitted with text remaining, and the
\* cursor went back to the start of that chunk, no further; an earlier chunk
\* longer than the overlap had moved the cursor forward
C27_Witness ==
  /\ partitioned /\ chunkOverlap >= 2
  /\ \E i \in 1..Len(chunks) :
       LET c == Len(chunks[i].text)
       IN /\ 1 <= c /\ c < chunkOverlap
          /\ starts[i] + c < Len(text)
          /\ CursorAfter(i) = starts[i]
  /\ \E j \in 1..Len(chunks) :
       /\ Len(chunks[j].text) > chunkOverlap
       /\ CursorAfter(j) > starts[j]

\* C28: the characters taken by a chunk never exceed the candidate split
\* length of its position, min(maxChars, floor((maxBytes - total image
\* bytes) / 2)) for the first chunk and min(maxChars, floor(maxBytes / 2))
\* for later chunks; in particular findSplitPoint(text, maxLength) is in
\* 1..maxLength when 1 <= maxLength < length(text).
C28_CandidateLengthBound ==
  partitioned =>
    \A i \in 1..Len(chunks) :
      /\ Len(chunks[i].text) <= CutTargetChars(i)
      /\ (1 <= CutTargetChars(i) /\ CutTargetChars(i) < Len(CutRemaining(i)))
           => findSplitPoint(CutRemaining(i), CutTargetChars(i)) \in 1..CutTargetChars(i)

\* C29: for a returned result with chunkOverlap = 0, metadata.estimatedBytes
\* is the byte length of the input plus the total image bytes, and
\* metadata.estimatedTokens lies between estimateTokens(input) and
\* estimateTokens(input) + totalChunks - 1.
C29_MetadataConservation ==
  (Returned /\ chunkOverlap = 0) =>
    /\ metadata.estimatedBytes = getTextByteSize(text) + getImagesByteSize(images)
    /\ estimateTokens(text) <= metadata.estimatedTokens
    /\ metadata.estimatedTokens <= estimateTokens(text) + metadata.totalChunks - 1

\* what chunker.js chunkInput gives for the arguments of the call
EsmOutcome == chunkInput("esm", text, images, limits, chunkOverlap, respectWordBoundaries)

\* C30: the ESM partitioner and the CommonJS partitioner are observationally
\* equivalent: whenever chunker.cjs chunkInput returns, chunker.js chunkInput
\* returns the same chunk sequence for the same text, images, limits and
\* options, and whenever it fails, chunker.js fails with the same error kind
\* and the same limit.
C30_VariantsEquivalent ==
  (partitioned /\ variant = "cjs") =>
    /\ Returned => EsmOutcome.kind = "done" /\ EsmOutcome.chunks = chunks
    /\ Failed => /\ EsmOutcome.kind = "error"
                 /\ EsmOutcome.err.kind = err.kind
                 /\ EsmOutcome.err.limit = err.limit

====
